---- MODULE Spec2Model ----
(***************************************************************************)
(* Model of the PDF reader: the extraction engine of pdf_parser/parser.py  *)
(* (parse_pdf_bytes, parse_pdf and their helpers) and the two Flask        *)
(* endpoints of app.py (POST /parse, POST /parse-url).                     *)
(*                                                                         *)
(* A Python string is a sequence of one-character strings, so that strip,  *)
(* lower and endswith are computed rather than assumed.  Python's None is  *)
(* the one-element sequence <<"None">>, whose element is no character.     *)
(* The pypdf reader is the environment: a document says how its reader     *)
(* behaves (whether it opens, what its info dictionary holds, what each    *)
(* page's extract_text returns or raises, whether pypdf met damage it      *)
(* recovered from).                                                        *)
(***************************************************************************)
EXTENDS Integers, Sequences, FiniteSets, TLC

VARIABLES pc, request, engine_calls, outcome, response

vars == <<pc, request, engine_calls, outcome, response>>

\* The largest number of pages of a document.
MaxPages == 2

None == <<"None">>

---------------------------------------------------------------------------
(* Python string methods *)

isspace(c) == c = " "

RECURSIVE lstrip(_)
lstrip(s) == IF s # <<>> /\ isspace(Head(s)) THEN lstrip(Tail(s)) ELSE s

RECURSIVE rstrip(_)
rstrip(s) ==
    IF s # <<>> /\ isspace(s[Len(s)]) THEN rstrip(SubSeq(s, 1, Len(s) - 1)) ELSE s

strip(s) == rstrip(lstrip(s))

lower_char(c) ==
    CASE c = "A" -> "a"
      [] c = "P" -> "p"
      [] c = "D" -> "d"
      [] c = "F" -> "f"
      [] OTHER -> c

lower(s) == [i \in 1..Len(s) |-> lower_char(s[i])]

endswith(s, suffix) ==
    /\ Len(s) >= Len(suffix)
    /\ SubSeq(s, Len(s) - Len(suffix) + 1, Len(s)) = suffix

\* `x or y` on strings and None: the empty string and None are falsy.
Or(x, y) == IF x = None \/ x = <<>> THEN y ELSE x

---------------------------------------------------------------------------
(* The documents: what pypdf makes of the bytes *)

InfoKeys == {"/Title", "/Author", "/CreationDate"}

\* What an info dictionary may hold under a key; None: the key is absent.
InfoValues == {None, <<>>, <<" ">>, <<"a">>, <<" ", "a", " ">>}

NoInfo == [k \in InfoKeys |-> None]

SampleInfo == [k \in InfoKeys |->
                 CASE k = "/Title" -> <<" ", "a", " ">>
                   [] k = "/Author" -> <<" ">>
                   [] OTHER -> None]

\* What page.extract_text() does: returns a string (or nothing), or raises.
PageTexts == {None, <<>>, <<" ">>, <<" ", "a", " ">>, <<"b">>}

PageBehaviours ==
    {[exc |-> "none", text |-> t] : t \in PageTexts}
        \cup {[exc |-> e, text |-> None] : e \in {"PdfReadError", "Exception"}}

PageSeqs(n) == UNION {[1..m -> PageBehaviours] : m \in 0..n}

Document(open, has_info, info, pages, damaged) ==
    [open |-> open, has_info |-> has_info, info |-> info, pages |-> pages,
     damaged |-> damaged]

\* Documents whose reader cannot be constructed at all.
UnreadableDocs ==
    {Document(e, FALSE, NoInfo, <<>>, TRUE) : e \in {"PdfReadError", "Exception"}}

\* Every info dictionary, on documents of at most one page.
InfoDocs ==
    {Document("ok", TRUE, info, pages, FALSE) :
        info \in [InfoKeys -> InfoValues], pages \in PageSeqs(1)}

\* Every page sequence, with and without an info dictionary, damaged or not.
PageDocs ==
    {Document("ok", FALSE, NoInfo, pages, d) :
        pages \in PageSeqs(MaxPages), d \in BOOLEAN}
    \cup {Document("ok", TRUE, SampleInfo, pages, d) :
        pages \in PageSeqs(MaxPages), d \in BOOLEAN}

Docs == UnreadableDocs \cup InfoDocs \cup PageDocs

\* A few documents for the requests whose interest is the request itself.
SampleDocs ==
    UnreadableDocs
    \cup {Document("ok", FALSE, NoInfo, <<[exc |-> "none", text |-> <<"b">>]>>, FALSE),
          Document("ok", FALSE, NoInfo, <<[exc |-> "Exception", text |-> None]>>, TRUE)}

---------------------------------------------------------------------------
(* pdf_parser/parser.py *)

Raise(e) == [exc |-> e, value |-> <<>>]

Return(v) == [exc |-> "none", value |-> v]

\* reader.metadata or {}, then meta.get(key)
meta_get(reader, key) == IF reader.has_info THEN reader.info[key] ELSE None

_clean_KeepEmpty(value) == IF value = None THEN None ELSE strip(value)

_clean(value) == IF value = None THEN None ELSE Or(strip(value), None)

_extract_metadata_CountText(reader) ==
    [title |-> _clean(meta_get(reader, "/Title")),
     author |-> _clean(meta_get(reader, "/Author")),
     creation_date |-> _clean(meta_get(reader, "/CreationDate")),
     num_pages |-> Cardinality({i \in 1..Len(reader.pages) :
                                  strip(Or(reader.pages[i].text, <<>>)) # <<>>})]

_extract_metadata(reader) ==
    [title |-> _clean(meta_get(reader, "/Title")),
     author |-> _clean(meta_get(reader, "/Author")),
     creation_date |-> _clean(meta_get(reader, "/CreationDate")),
     num_pages |-> Len(reader.pages)]

ScannedWarning == [kind |-> "scanned/image-only document", numbers |-> <<>>]

PartialWarning(image_only_pages, total) ==
    [kind |-> "of page(s) appear to be image-only",
     numbers |-> <<image_only_pages, total>>]

image_only_warnings_AnyBlank(image_only_pages, total) ==
    IF image_only_pages > 0 THEN <<ScannedWarning>> ELSE <<>>

\* The aggregate warning, lines 61-73.
image_only_warnings(image_only_pages, total) ==
    IF image_only_pages > 0
    THEN IF image_only_pages = total
         THEN <<ScannedWarning>>
         ELSE <<PartialWarning(image_only_pages, total)>>
    ELSE <<>>

page_entry_FromZero(i, text) == [page |-> i - 1, text |-> text]

\* enumerate(reader.pages, start=1): the entry of the i-th page.
page_entry(i, text) == [page |-> i, text |-> text]

\* The loop of lines 54-59 from page i on; an exception of extract_text
\* leaves the loop and the function.
RECURSIVE extract_loop(_, _, _, _)
extract_loop(reader, i, pages, image_only_pages) ==
    IF i > Len(reader.pages)
    THEN Return([pages |-> pages,
                 warnings |-> image_only_warnings(image_only_pages,
                                                  Len(reader.pages))])
    ELSE IF reader.pages[i].exc # "none"
         THEN Raise(reader.pages[i].exc)
         ELSE LET text == strip(Or(reader.pages[i].text, <<>>))
              IN extract_loop(reader, i + 1,
                              Append(pages, page_entry(i, text)),
                              IF text = <<>> THEN image_only_pages + 1
                                             ELSE image_only_pages)

_extract_pages(reader) == extract_loop(reader, 1, <<>>, 0)

parse_pdf_bytes(data) ==
    IF data.open # "ok"
    THEN Raise(data.open)
    ELSE LET metadata == _extract_metadata(data)
             extracted == _extract_pages(data)
         IN IF extracted.exc # "none"
            THEN Raise(extracted.exc)
            ELSE Return([metadata |-> metadata,
                         pages |-> extracted.value.pages,
                         warnings |-> extracted.value.warnings])

\* What the file system holds at a path.
Entries == {"missing", "dir", "file", "unreadable"}

\* parse_pdf: the outcome, and whether parse_pdf_bytes was called.
parse_pdf(entry, data) ==
    IF entry = "missing"
    THEN [result |-> Raise("FileNotFoundError"), called |-> 0]
    ELSE IF entry = "dir"
         THEN [result |-> Raise("ValueError"), called |-> 0]
         ELSE IF entry = "unreadable"
              THEN [result |-> Raise("PermissionError"), called |-> 0]
              ELSE [result |-> parse_pdf_bytes(data), called |-> 1]

---------------------------------------------------------------------------
(* app.py *)

MAX_CONTENT_LENGTH == 50 * 1024 * 1024

json_response(status, body) ==
    [status |-> status, mimetype |-> "application/json", body |-> body]

\* The page Flask answers an HTTPException or an unhandled exception with:
\* app.py registers no error handler.
http_exception(status) ==
    [status |-> status, mimetype |-> "text/html", body |-> [title |-> status]]

NoResponse == [status |-> 0, mimetype |-> "", body |-> [title |-> 0]]

NotCalled == [exc |-> "not_called", value |-> <<>>]

has_pdf_suffix_NoDot(filename) == endswith(lower(filename), <<"p", "d", "f">>)

\* uploaded.filename.lower().endswith(".pdf")
has_pdf_suffix(filename) == endswith(lower(filename), <<".", "p", "d", "f">>)

upload_result_response_CatchAll(result) ==
    IF result.exc = "none"
    THEN json_response(200, result.value)
    ELSE json_response(500, [error |-> result.exc])

\* Lines 48-55: the response to what parse_pdf_bytes did.
upload_result_response(result) ==
    IF result.exc = "none"
    THEN json_response(200, result.value)
    ELSE IF result.exc = "PdfReadError"
         THEN json_response(422, [error |-> "Invalid or corrupted PDF"])
         ELSE json_response(500, [error |-> result.exc])

\* The handler of POST /parse: its response, what the engine did, and how
\* often parse_pdf_bytes was called.  Reading request.files of a request
\* above MAX_CONTENT_LENGTH makes Flask abort with 413.
api_parse_upload(req) ==
    IF req.content_length > MAX_CONTENT_LENGTH
    THEN [response |-> http_exception(413), result |-> NotCalled, called |-> 0]
    ELSE IF ~req.has_file
    THEN [response |-> json_response(400, [error |-> "No file field in request"]),
          result |-> NotCalled, called |-> 0]
    ELSE IF req.filename = <<>>
    THEN [response |-> json_response(400, [error |-> "Empty filename"]),
          result |-> NotCalled, called |-> 0]
    ELSE IF ~has_pdf_suffix(req.filename)
    THEN [response |-> json_response(400, [error |-> "Uploaded file must be a PDF"]),
          result |-> NotCalled, called |-> 0]
    ELSE LET result == parse_pdf_bytes(req.data)
         IN [response |-> upload_result_response(result), result |-> result,
             called |-> 1]

\* Lines 69-78: the response to what parse_pdf did.
path_result_response(result) ==
    IF result.exc = "none"
    THEN json_response(200, result.value)
    ELSE IF result.exc = "FileNotFoundError"
         THEN json_response(404, [error |-> "PDF file not found"])
         ELSE IF result.exc = "PdfReadError"
              THEN json_response(422, [error |-> "Invalid or corrupted PDF"])
              ELSE json_response(500, [error |-> result.exc])

\* The handler of POST /parse-url.  A "path" that is no string has no
\* strip(): the AttributeError leaves the handler and Flask answers 500.
api_parse_path(req) ==
    IF req.path_type = "other"
    THEN [response |-> http_exception(500), result |-> NotCalled, called |-> 0]
    ELSE LET path == strip(IF req.path_type = "absent" THEN <<>> ELSE req.path)
         IN IF path = <<>>
            THEN [response |-> json_response(400,
                                   [error |-> "Missing 'path' in JSON body"]),
                  result |-> NotCalled, called |-> 0]
            ELSE LET got == parse_pdf(req.entry, req.data)
                 IN [response |-> path_result_response(got.result),
                     result |-> got.result, called |-> got.called]

---------------------------------------------------------------------------
(* The requests and calls the program receives *)

Filenames ==
    {<<>>,
     <<"a", ".", "p", "d", "f">>,
     <<"A", ".", "P", "D", "F">>,
     <<".", "p", "d", "f">>,
     <<"a", "p", "d", "f">>,
     <<"a", ".", "t", "x", "t">>,
     <<"a", ".", "p", "d", "f", "x">>}

ContentLengths == {1, MAX_CONTENT_LENGTH, MAX_CONTENT_LENGTH + 1}

PathStrings == {<<>>, <<" ">>, <<"a">>, <<" ", "a", " ">>}

Request(kind, has_file, filename, content_length, path_type, path, entry, data) ==
    [kind |-> kind, has_file |-> has_file, filename |-> filename,
     content_length |-> content_length, path_type |-> path_type, path |-> path,
     entry |-> entry, data |-> data]

Upload(has_file, filename, content_length, data) ==
    Request("POST /parse", has_file, filename, content_length, "absent", <<>>,
            "missing", data)

UploadRequests ==
    {Upload(TRUE, f, n, d) : f \in Filenames, n \in ContentLengths, d \in SampleDocs}
    \cup {Upload(FALSE, <<>>, n, d) : n \in ContentLengths, d \in SampleDocs}
    \cup {Upload(TRUE, <<"a", ".", "p", "d", "f">>, 1, d) : d \in Docs}

ByPath(kind, path_type, path, entry, data) ==
    Request(kind, FALSE, <<>>, 1, path_type, path, entry, data)

PathRequests ==
    {ByPath("POST /parse-url", "str", p, e, d) :
        p \in PathStrings, e \in Entries, d \in SampleDocs}
    \cup {ByPath("POST /parse-url", t, <<>>, "missing", d) :
        t \in {"absent", "other"}, d \in SampleDocs}
    \cup {ByPath("POST /parse-url", "str", <<"a">>, "file", d) : d \in Docs}

ParsePdfCalls ==
    {ByPath("parse_pdf", "str", <<"a">>, e, d) : e \in Entries, d \in SampleDocs}
    \cup {ByPath("parse_pdf", "str", <<"a">>, "file", d) : d \in Docs}

ParsePdfBytesCalls ==
    {ByPath("parse_pdf_bytes", "absent", <<>>, "missing", d) : d \in Docs}

Requests == UploadRequests \cup PathRequests \cup ParsePdfCalls \cup ParsePdfBytesCalls

NoRequest == ByPath("none", "absent", <<>>, "missing", CHOOSE d \in UnreadableDocs : TRUE)

---------------------------------------------------------------------------
(* The state machine *)

Init ==
    /\ pc = "idle"
    /\ request = NoRequest
    /\ engine_calls = 0
    /\ outcome = NotCalled
    /\ response = NoResponse

\* A request is routed to its handler, or a caller calls the parser.
Receive ==
    /\ pc = "idle"
    /\ \E req \in Requests : request' = req
    /\ pc' = "pending"
    /\ UNCHANGED <<engine_calls, outcome, response>>

HandleUpload ==
    /\ pc = "pending"
    /\ request.kind = "POST /parse"
    /\ LET done == api_parse_upload(request)
       IN /\ response' = done.response
          /\ outcome' = done.result
          /\ engine_calls' = done.called
    /\ pc' = "done"
    /\ UNCHANGED request

HandlePath ==
    /\ pc = "pending"
    /\ request.kind = "POST /parse-url"
    /\ LET done == api_parse_path(request)
       IN /\ response' = done.response
          /\ outcome' = done.result
          /\ engine_calls' = done.called
    /\ pc' = "done"
    /\ UNCHANGED request

CallParsePdf ==
    /\ pc = "pending"
    /\ request.kind = "parse_pdf"
    /\ LET got == parse_pdf(request.entry, request.data)
       IN /\ outcome' = got.result
          /\ engine_calls' = got.called
    /\ pc' = "done"
    /\ UNCHANGED <<request, response>>

CallParsePdfBytes ==
    /\ pc = "pending"
    /\ request.kind = "parse_pdf_bytes"
    /\ outcome' = parse_pdf_bytes(request.data)
    /\ engine_calls' = 1
    /\ pc' = "done"
    /\ UNCHANGED <<request, response>>

\* The response is sent, or the call returns: nothing of it is kept.
Finish ==
    /\ pc = "done"
    /\ pc' = "idle"
    /\ request' = NoRequest
    /\ engine_calls' = 0
    /\ outcome' = NotCalled
    /\ response' = NoResponse

Next ==
    \/ Receive
    \/ HandleUpload
    \/ HandlePath
    \/ CallParsePdf
    \/ CallParsePdfBytes
    \/ Finish

Spec == Init /\ [][Next]_vars

---------------------------------------------------------------------------
(* What the properties speak of *)

Doc == request.data

Result == outcome.value

\* A call of the parser, direct or through an endpoint, has returned a result.
Returned == pc = "done" /\ outcome.exc = "none"

\* The text is empty once trimmed: there is none, or it is all spaces.
AllSpaces(t) == t = None \/ \A j \in 1..Len(t) : t[j] = " "

\* The characters of a text other than the space.
Letters(t) == IF t = None THEN {} ELSE {t[j] : j \in 1..Len(t)} \ {" "}

BlankPages == {i \in 1..Len(Doc.pages) : AllSpaces(Doc.pages[i].text)}

ImageOnlyKinds ==
    {"scanned/image-only document", "of page(s) appear to be image-only"}

IsClientError(r) == r.status \in 400..499

IsServerError(r) == r.status \in 500..599

HasErrorMessage(r) == r.mimetype = "application/json" /\ "error" \in DOMAIN r.body

\* C1: every returned result has as many entries in `pages` as
\* metadata.num_pages says, whatever the mix of blank and text-bearing pages.
C1_PagesMatchNumPages ==
    Returned => Len(Result.pages) = Result.metadata.num_pages

C1_Witness ==
    /\ Returned
    /\ Len(Result.pages) = 2
    /\ Result.pages[1].text = <<>>
    /\ Result.pages[2].text # <<>>

\* C2: with k blank pages among N, the warnings are the one scanned/image-only
\* warning when k = N > 0, the one count-based warning naming k and N when
\* 0 < k < N, and hold no image-only warning when k = 0; k is also the number
\* of returned entries whose text is empty.
C2_AggregateWarning ==
    Returned =>
        LET N == Len(Doc.pages)
            k == Cardinality(BlankPages)
            w == Result.warnings
        IN /\ k = Cardinality({i \in 1..Len(Result.pages) :
                                  Result.pages[i].text = <<>>})
           /\ (k = N /\ N > 0) =>
                 /\ Len(w) = 1
                 /\ w[1].kind = "scanned/image-only document"
           /\ (0 < k /\ k < N) =>
                 /\ Len(w) = 1
                 /\ w[1].kind = "of page(s) appear to be image-only"
                 /\ w[1].numbers = <<k, N>>
           /\ k = 0 => \A j \in 1..Len(w) : w[j].kind \notin ImageOnlyKinds

C2_Witness ==
    /\ Returned
    /\ Len(Doc.pages) = 2
    /\ Cardinality(BlankPages) = 1
    /\ Len(Result.warnings) = 1
    /\ Result.warnings[1].numbers = <<1, 2>>

\* C3: the warnings of a returned result are empty exactly when no page was
\* classified image-only and no structural damage was met while parsing.
C3_WarningsEmptyIffClean ==
    Returned =>
        (Result.warnings = <<>> <=> (BlankPages = {} /\ ~Doc.damaged))

\* C4: the entry at position i of `pages` (counted from 1) is numbered i and
\* is the entry of the document's i-th page.
C4_PagesNumberedInOrder ==
    Returned =>
        \A i \in 1..Len(Result.pages) :
            /\ Result.pages[i].page = i
            /\ Letters(Result.pages[i].text) = Letters(Doc.pages[i].text)

C4_Witness ==
    /\ Returned
    /\ Len(Result.pages) = 2
    /\ Result.pages[1].page = 1
    /\ Result.pages[2].page = 2
    /\ Letters(Result.pages[1].text) # Letters(Result.pages[2].text)

MetadataFields == {"title", "author", "creation_date"}

InfoKeyOf(f) ==
    CASE f = "title" -> "/Title"
      [] f = "author" -> "/Author"
      [] f = "creation_date" -> "/CreationDate"

\* C5: title, author and creation_date are each null or a non-empty string
\* that neither starts nor ends with whitespace; a field that is absent, or
\* empty once trimmed, is null; num_pages is always there.
C5_MetadataNullOrTrimmed ==
    Returned =>
        /\ "num_pages" \in DOMAIN Result.metadata
        /\ \A f \in MetadataFields :
              LET v == Result.metadata[f]
                  raw == IF Doc.has_info THEN Doc.info[InfoKeyOf(f)] ELSE None
              IN /\ \/ v = None
                    \/ /\ v # <<>>
                       /\ v[1] # " "
                       /\ v[Len(v)] # " "
                 /\ AllSpaces(raw) => v = None

C5_Witness ==
    /\ Returned
    /\ Doc.has_info
    /\ Doc.info["/Title"] = <<" ">>
    /\ Doc.info["/Author"] = <<" ", "a", " ">>
    /\ Doc.info["/CreationDate"] = <<>>
    /\ Result.metadata.title = None
    /\ Result.metadata.author = <<"a">>

PathGiven ==
    /\ request.path_type = "str"
    /\ ~AllSpaces(request.path)

\* C6: a path to an existing directory fails with a client error other than
\* the one for a missing file: parse_pdf raises another kind of error, and
\* POST /parse-url answers 4xx but not 404, the engine never being called.
C6_DirectoryIsClientError ==
    /\ (pc = "done" /\ request.kind = "parse_pdf" /\ request.entry = "dir") =>
          /\ outcome.exc \notin {"none", "FileNotFoundError"}
          /\ engine_calls = 0
    /\ (pc = "done" /\ request.kind = "POST /parse-url" /\ PathGiven
            /\ request.entry = "dir") =>
          /\ IsClientError(response)
          /\ response.status # 404
          /\ engine_calls = 0

\* The file names of Filenames that end in .pdf, whatever the case.
PdfNamed == {<<"a", ".", "p", "d", "f">>, <<"A", ".", "P", "D", "F">>,
             <<".", "p", "d", "f">>}

TooLarge == request.content_length > 50 * 1024 * 1024

MustReject ==
    \/ ~request.has_file
    \/ request.filename = <<>>
    \/ request.filename \notin PdfNamed
    \/ TooLarge

\* C7 as stated: POST /parse rejects a request with no file field, an empty
\* file name, a name not ending in .pdf or a payload above 50 MiB before the
\* engine is called, each time with a client error carrying an `error`
\* message; the engine is called only for the other requests.
C7_RejectedWithErrorMessage ==
    (pc = "done" /\ request.kind = "POST /parse") =>
        /\ MustReject =>
              /\ engine_calls = 0
              /\ IsClientError(response)
              /\ HasErrorMessage(response)
        /\ engine_calls > 0 => ~MustReject

\* C7 as amended: the same, but the `error` message is that of the three
\* rejections the handler makes itself; a payload above the ceiling is
\* answered 413 by the framework, with no JSON body.
C7_RejectedBeforeEngine ==
    (pc = "done" /\ request.kind = "POST /parse") =>
        /\ MustReject =>
              /\ engine_calls = 0
              /\ IsClientError(response)
              /\ IF TooLarge
                 THEN response.status = 413 /\ ~HasErrorMessage(response)
                 ELSE HasErrorMessage(response)
        /\ engine_calls > 0 => ~MustReject

C7_Witness ==
    /\ pc = "done"
    /\ request.kind = "POST /parse"
    /\ request.has_file
    /\ request.filename \in PdfNamed
    /\ TooLarge
    /\ Doc.open = "ok"
    /\ engine_calls = 0
    /\ response.status = 413

\* C8: once the engine was called, a result is answered 200 with exactly the
\* keys metadata, pages and warnings, a PdfReadError with a client error and
\* an `error` message, any other failure with a server error; POST /parse-url
\* answers a missing path 400 and a missing file 404; only a result is
\* answered 200.
C8_ResponseFollowsOutcome ==
    (pc = "done" /\ request.kind \in {"POST /parse", "POST /parse-url"}) =>
        /\ engine_calls = 1 =>
              /\ outcome.exc = "none" =>
                    /\ response.status = 200
                    /\ response.mimetype = "application/json"
                    /\ DOMAIN response.body = {"metadata", "pages", "warnings"}
              /\ outcome.exc = "PdfReadError" =>
                    /\ IsClientError(response)
                    /\ HasErrorMessage(response)
              /\ outcome.exc \notin {"none", "PdfReadError"} =>
                    IsServerError(response)
        /\ (request.kind = "POST /parse-url" /\ request.path_type # "other"
                /\ ~PathGiven) => response.status = 400
        /\ (request.kind = "POST /parse-url" /\ PathGiven
                /\ request.entry = "missing") => response.status = 404
        /\ response.status = 200 => (engine_calls = 1 /\ outcome.exc = "none")

C8_Witness ==
    /\ pc = "done"
    /\ request.kind = "POST /parse"
    /\ engine_calls = 1
    /\ Doc.open = "ok"
    /\ outcome.exc = "PdfReadError"
    /\ response.status = 422

RaisingPages == {i \in 1..Len(Doc.pages) : Doc.pages[i].exc # "none"}

\* C9: when extract_text of a page fails, parse_pdf_bytes still returns a
\* result: the failing page is there with empty text, a warning is added,
\* and the other pages are as they would be without the failure.
C9_PageFailureDegrades ==
    (pc = "done" /\ request.kind = "parse_pdf_bytes" /\ Doc.open = "ok"
        /\ RaisingPages # {}) =>
        /\ outcome.exc = "none"
        /\ Len(Result.pages) = Len(Doc.pages)
        /\ Len(Result.warnings) >= 1
        /\ \A i \in 1..Len(Doc.pages) :
              IF i \in RaisingPages
              THEN Result.pages[i].text = <<>>
              ELSE Letters(Result.pages[i].text) = Letters(Doc.pages[i].text)

====
